---- MODULE Spec2Model ----
(***************************************************************************)
(* Connection lifecycle manager of mcp-alchemy:                            *)
(*   auth/tokens.py        AzureTokenCache (token cache behind a Lock)     *)
(*   mcp_alchemy/models.py DatabaseConfig, DatabaseManager                 *)
(*   mcp_alchemy/server.py execute_query (consumer of a scoped connection) *)
(* The specifications share the variables: TokenSpec (the token cache      *)
(* under concurrent threads), ConnSpec (DatabaseConfig.connection under    *)
(* cooperative tasks), EnvSpec (DatabaseManager.from_environment and       *)
(* get_database), ServerSpec (the listings, QueryResult and the            *)
(* execute_query and get_table_names handlers), EngineSpec (the engine     *)
(* handle of a DatabaseConfig under thread-concurrent callers, statement   *)
(* by statement) and ResolveSpec (the token a config's engine is created   *)
(* with, against the token cache as time passes).                          *)
(***************************************************************************)
EXTENDS Integers, Sequences, FiniteSets, TLC

\* ------------------------------------------------------------------ bounds
NumThreads == 2        \* threads calling get_token()
MaxClock == 56         \* the clock stops advancing here (minutes)
NumTasks == 2          \* cooperative tasks calling DatabaseConfig.connection()
MaxEngines == 1        \* engines create_async_engine may hand out to the tasks
MaxPlannedFailures == 3    \* longest run of failing engine.connect() attempts
NumCallers == 2        \* threads calling get_engine(), connection(), mark_unavailable()
MaxCreated == 2        \* engines create_async_engine may hand out to the threads

\* ------------------------------------------------------- program constants
TokenLifetimeMinutes == 55     \* timedelta(minutes=55)
RefreshMarginMinutes == 5      \* timedelta(minutes=5)
None == 0                      \* Python's None for a token, an instant, an engine

VARIABLES
    \* ---- AzureTokenCache
    clock,          \* datetime.utcnow(), in minutes
    tcToken,        \* self._token: None, or the id of the token (the n-th the provider issued)
    tcExpiration,   \* self._expiration: None, or an instant
    tcLock,         \* self._lock: None when free, else the thread holding it
    tpc,            \* per thread: "idle", "waiting", "fetch", "done", "raised"
    tnow,           \* per thread: `now` read inside the lock
    tret,           \* per thread: the value get_token() returned (None before it returns)
    tfetched,       \* per thread: this call invoked the credential provider
    arrToken,       \* per thread: self._token when the call was entered
    arrStale,       \* per thread: the cache was missing or stale when the call was entered
    lastFetchAt,    \* history: `now` of the call whose fetch stored the cached token
    issued,         \* credential provider: number of tokens it has issued
    \* ---- DatabaseConfig (one config; configs do not share state)
    available,      \* self.available
    engine,         \* self.engine: None, or the id of an engine
    read_only,      \* self.read_only
    usesToken,      \* 'AZURE_TOKEN' in self.url
    engineCount,    \* engines created so far
    aborted,        \* sys.exit(1) was raised
    disposal,       \* how the disposal of the last engine dropped went
    task,           \* per task: its position in connection() and what the call did
    \* ---- DatabaseManager
    environ,        \* os.environ: per key whether it is set, and its value
    remaining,      \* from_environment: keys the loop has not visited yet
    databases,      \* manager.databases: the configs, keyed by their name
    mpc,            \* "idle", "loop", "ready" (manager returned), "exited" (sys.exit)
    lookup,         \* the last get_database() call and what it gave
    \* ---- server module and QueryResult
    managerAvailable,       \* database_manager.databases: each config's available flag
    AVAILABLE_DATABASES,    \* the module constant of server.py:60
    listing,        \* the last listing of databases produced, and by what
    handler,        \* the last tool call and how it ended
    built,          \* the last direct from_sqlalchemy_result call and its QueryResult
    \* ---- DatabaseConfig under threads (EngineSpec; the config is the one above)
    callers,        \* per thread: the call it is in and the statement it is at
    live,           \* engines created and not yet disposed
    scheduled,      \* engines whose dispose() task was created and has not run
    \* ---- credential resolution (ResolveSpec; the config and the cache above)
    embedded,       \* the token in the URL self.engine was created with (None: no token)
    lastConnect     \* the last connection() call: when, how it went, what it used

tokenVars == <<clock, tcToken, tcExpiration, tcLock, tpc, tnow, tret, tfetched,
               arrToken, arrStale, lastFetchAt, issued>>

connVars == <<available, engine, read_only, usesToken, engineCount, aborted, disposal, task>>

envVars == <<environ, remaining, databases, mpc, lookup>>

serverVars == <<managerAvailable, AVAILABLE_DATABASES, listing, handler, built>>

engVars == <<callers, live, scheduled>>

resolveVars == <<embedded, lastConnect>>

vars == <<tokenVars, connVars, envVars, serverVars, engVars, resolveVars>>

\* what the steps of one component leave alone
notToken == <<connVars, envVars, serverVars, engVars, resolveVars>>
notConn == <<tokenVars, envVars, serverVars, engVars, resolveVars>>
notEnv == <<tokenVars, connVars, serverVars, engVars, resolveVars>>
notServer == <<tokenVars, connVars, envVars, engVars, resolveVars>>
notEngine == <<read_only, usesToken, aborted, task, tokenVars, envVars, serverVars, resolveVars>>

Threads == 1..NumThreads
TickSteps == {5, 46}

Tasks == 1..NumTasks

\* a task that is not inside connection(): nothing acquired, nothing recorded
FreshCall ==
    [pc |-> "idle", outcome |-> "none", conn |-> "none",
     attempts |-> 0, plan |-> 0, wasYielded |-> FALSE, enforced |-> FALSE,
     tagFailed |-> FALSE, calledToken |-> FALSE, createdEngine |-> FALSE]

\* DatabaseConfig as the dataclass constructs it (models.py:82-84)
ConnIdle ==
    /\ available = TRUE
    /\ engine = None
    /\ read_only = FALSE
    /\ usesToken = FALSE
    /\ engineCount = 0
    /\ aborted = FALSE
    /\ disposal = "none"
    /\ task = [p \in Tasks |-> FreshCall]


\* ============================================================== strings
\* A Python str is the sequence of its characters.
UpperLetters == <<"A","B","C","D","E","F","G","H","I","J","K","L","M",
                  "N","O","P","Q","R","S","T","U","V","W","X","Y","Z">>
LowerLetters == <<"a","b","c","d","e","f","g","h","i","j","k","l","m",
                  "n","o","p","q","r","s","t","u","v","w","x","y","z">>

\* str.lower(), character by character
LowerChar(c) ==
    IF \E i \in DOMAIN UpperLetters : UpperLetters[i] = c
    THEN LowerLetters[CHOOSE i \in DOMAIN UpperLetters : UpperLetters[i] = c]
    ELSE c

Lower(str) == [i \in 1..Len(str) |-> LowerChar(str[i])]

\* str.startswith, str.endswith
StartsWith(str, prefix) ==
    Len(str) >= Len(prefix) /\ SubSeq(str, 1, Len(prefix)) = prefix

EndsWith(str, suffix) ==
    Len(str) >= Len(suffix) /\ SubSeq(str, Len(str) - Len(suffix) + 1, Len(str)) = suffix

\* key[3:-4] (models.py:166): the characters after the first three and
\* before the last four; empty when there are none
NamePart(key) ==
    IF Len(key) - 4 >= 4 THEN SubSeq(key, 4, Len(key) - 4) ELSE <<>>

DB_ == <<"D","B","_">>
_URL == <<"_","U","R","L">>
_DESC == <<"_","D","E","S","C">>
_READ_ONLY == <<"_","R","E","A","D","_","O","N","L","Y">>
DB_URL == <<"D","B","_","U","R","L">>
DB_READ_ONLY == <<"D","B">> \o _READ_ONLY
Default == <<"d","e","f","a","u","l","t">>
DefaultDescription == <<"D","e","f","a","u","l","t"," ","d","a","t","a","b","a","s","e">>

\* ('true', '1', 'yes', 'on') (models.py:181, 194)
TruthyLiterals == {<<"t","r","u","e">>, <<"1">>, <<"y","e","s">>, <<"o","n">>}

\* a state of the manager outside from_environment, for the other
\* specifications
EnvIdle ==
    /\ environ = <<>>
    /\ remaining = {}
    /\ databases = {}
    /\ mpc = "idle"
    /\ lookup = <<>>

\* database_manager.databases (server.py:19): the names of its configs in
\* the dict's insertion order, as from_environment lower-cased them
ManagerNames == << <<"a","b">>, <<"b">> >>

ManagerNameSet == {ManagerNames[i] : i \in DOMAIN ManagerNames}

\* [config.name for config in self.databases.values() if config.available]
\* (models.py:222) under the available flags `flags`
RECURSIVE AvailableOf(_, _)
AvailableOf(names, flags) ==
    IF names = <<>> THEN <<>>
    ELSE IF flags[Head(names)]
         THEN <<Head(names)>> \o AvailableOf(Tail(names), flags)
         ELSE AvailableOf(Tail(names), flags)

\* "\n".join(names) (models.py:226)
RECURSIVE JoinLines(_)
JoinLines(names) ==
    IF names = <<>> THEN <<>>
    ELSE IF Len(names) = 1 THEN Head(names)
         ELSE Head(names) \o <<"\n">> \o JoinLines(Tail(names))

\* the server module right after its import: every config available as
\* constructed, AVAILABLE_DATABASES computed (server.py:19, 60), no tool
\* called yet
ServerImported ==
    /\ managerAvailable = [d \in ManagerNameSet |-> TRUE]
    /\ AVAILABLE_DATABASES = JoinLines(ManagerNames)
    /\ listing = <<>>
    /\ handler = <<>>
    /\ built = <<>>

Callers == 1..NumCallers

\* a thread that is in no call of the config
IdleCaller == [pc |-> "idle", op |-> "none", afterFailure |-> FALSE]

\* no thread has called the config yet, no engine exists
NoCallers ==
    /\ callers = [t \in Callers |-> IdleCaller]
    /\ live = {}
    /\ scheduled = {}

\* no engine has been created from a resolved URL, connection() was not called
NothingResolved ==
    /\ embedded = None
    /\ lastConnect = <<>>

\* ------------------------------------------------- bounds of ServerSpec
MaxRawRows == 2        \* longest raw result handed to from_sqlalchemy_result
MaxRowLimit == 2       \* largest max_rows handed to it directly

\* MAX_ROWS = 10000 (server.py:252)
MAX_ROWS == 10000

\* ====================================================== AzureTokenCache
\* tokens.py:17, the refresh condition, for cached token tok, expiry exp, time now
NeedsRefreshLe(tok, exp, now) ==
    tok = None \/ exp = None \/ (exp - now) <= RefreshMarginMinutes

\* the margin taken one minute too small
NeedsRefreshLate(tok, exp, now) ==
    tok = None \/ exp = None \/ (exp - now) < RefreshMarginMinutes - 1

NeedsRefresh(tok, exp, now) ==
    tok = None \/ exp = None \/ (exp - now) < RefreshMarginMinutes

\* tokens.py:15, `with self._lock`: entry waits until the lock is free
LockFreeAlways == TRUE

LockFree == tcLock = None

\* AzureTokenCache.__init__ (tokens.py:8-12), at time 0
TokenCacheNew ==
    /\ clock = 0
    /\ tcToken = None
    /\ tcExpiration = None
    /\ tcLock = None
    /\ tpc = [t \in Threads |-> "idle"]
    /\ tnow = [t \in Threads |-> 0]
    /\ tret = [t \in Threads |-> None]
    /\ tfetched = [t \in Threads |-> FALSE]
    /\ arrToken = [t \in Threads |-> None]
    /\ arrStale = [t \in Threads |-> FALSE]
    /\ lastFetchAt = 0
    /\ issued = 0

TokenInit == TokenCacheNew /\ ConnIdle /\ EnvIdle /\ ServerImported /\ NoCallers /\ NothingResolved

\* time passes
Tick ==
    /\ \E d \in TickSteps :
          /\ clock + d <= MaxClock
          /\ clock' = clock + d
    /\ UNCHANGED <<tcToken, tcExpiration, tcLock, tpc, tnow, tret, tfetched,
                   arrToken, arrStale, lastFetchAt, issued, notToken>>

\* a thread enters get_token() and reaches `with self._lock`
CallGetToken(t) ==
    /\ tpc[t] \in {"idle", "done", "raised"}
    /\ tpc' = [tpc EXCEPT ![t] = "waiting"]
    /\ tret' = [tret EXCEPT ![t] = None]
    /\ tfetched' = [tfetched EXCEPT ![t] = FALSE]
    /\ arrToken' = [arrToken EXCEPT ![t] = tcToken]
    /\ arrStale' = [arrStale EXCEPT ![t] = NeedsRefresh(tcToken, tcExpiration, clock)]
    /\ UNCHANGED <<clock, tcToken, tcExpiration, tcLock, tnow, lastFetchAt, issued, notToken>>

\* lock acquired, now read, condition false: the cached token is returned
\* and the lock released (tokens.py:15-17, 21)
ReturnCached(t) ==
    /\ tpc[t] = "waiting"
    /\ LockFree
    /\ ~NeedsRefresh(tcToken, tcExpiration, clock)
    /\ tnow' = [tnow EXCEPT ![t] = clock]
    /\ tret' = [tret EXCEPT ![t] = tcToken]
    /\ tpc' = [tpc EXCEPT ![t] = "done"]
    /\ UNCHANGED <<clock, tcToken, tcExpiration, tcLock, tfetched, arrToken, arrStale, lastFetchAt, issued, notToken>>

\* lock acquired, now read, condition true: the provider is called while
\* the lock is held (tokens.py:15-18)
BeginFetch(t) ==
    /\ tpc[t] = "waiting"
    /\ LockFree
    /\ NeedsRefresh(tcToken, tcExpiration, clock)
    /\ tcLock' = t
    /\ tnow' = [tnow EXCEPT ![t] = clock]
    /\ tfetched' = [tfetched EXCEPT ![t] = TRUE]
    /\ tpc' = [tpc EXCEPT ![t] = "fetch"]
    /\ UNCHANGED <<clock, tcToken, tcExpiration, tret, arrToken, arrStale, lastFetchAt, issued, notToken>>

\* the provider answers: token and expiry stored, token returned, lock
\* released (tokens.py:19-21). The provider's n-th token has id n.
FetchOk(t) ==
    /\ tpc[t] = "fetch"
    /\ issued' = issued + 1
    /\ tcToken' = issued + 1
    /\ tcExpiration' = tnow[t] + TokenLifetimeMinutes
    /\ tret' = [tret EXCEPT ![t] = issued + 1]
    /\ tcLock' = None
    /\ tpc' = [tpc EXCEPT ![t] = "done"]
    /\ lastFetchAt' = tnow[t]
    /\ UNCHANGED <<clock, tnow, tfetched, arrToken, arrStale, notToken>>

\* the provider raises and the lock stays held, as with an acquire() whose
\* release() is not in a finally
FetchFailHoldsLock(t) ==
    /\ tpc[t] = "fetch"
    /\ tpc' = [tpc EXCEPT ![t] = "raised"]
    /\ UNCHANGED <<clock, tcToken, tcExpiration, tcLock, tnow, tret, tfetched, arrToken, arrStale, lastFetchAt, issued, notToken>>

\* the provider raises: the exception leaves the with block, which
\* releases the lock; nothing is stored (tokens.py:15, 18)
FetchFail(t) ==
    /\ tpc[t] = "fetch"
    /\ tcLock' = None
    /\ tpc' = [tpc EXCEPT ![t] = "raised"]
    /\ UNCHANGED <<clock, tcToken, tcExpiration, tnow, tret, tfetched, arrToken, arrStale, lastFetchAt, issued, notToken>>

TokenNext ==
    \/ Tick
    \/ \E t \in Threads : CallGetToken(t)
    \/ \E t \in Threads : ReturnCached(t)
    \/ \E t \in Threads : BeginFetch(t)
    \/ \E t \in Threads : FetchOk(t)
    \/ \E t \in Threads : FetchFail(t)

TokenSpec == TokenInit /\ [][TokenNext]_vars

\* ------------------------------------------------------------ claims C5, C6
\* a cached token stays fresh for TokenLifetime - RefreshMargin = 50 minutes
FreshWindowMinutes == TokenLifetimeMinutes - RefreshMarginMinutes

\* the cache as the claim describes it: nothing cached, or the last stored
\* fetch is more than 50 minutes old (remaining lifetime under 5 minutes)
CacheMiss == tcToken = None \/ clock - lastFetchAt > FreshWindowMinutes

\* C5: a get_token() call invokes the provider exactly when no token is
\* cached or the cached token (expiry = last fetch + 55 min) has under 5
\* minutes left: a call within 50 minutes of the fetch returns the cached
\* token without a fetch, a later call fetches, and when the provider
\* answers the call returns the token just fetched.
C5_FetchExactlyWhenStale ==
    [][\A t \in Threads :
        /\ (tpc[t] = "waiting" /\ tpc'[t] = "fetch") => CacheMiss
        /\ (tpc[t] = "waiting" /\ tpc'[t] = "done") =>
               /\ ~CacheMiss
               /\ ~tfetched'[t]
               /\ tret'[t] = tcToken
               /\ UNCHANGED <<tcToken, tcExpiration, issued>>
        /\ (tpc[t] = "fetch" /\ tpc'[t] = "done") =>
               /\ tfetched[t]
               /\ issued' = issued + 1
               /\ tret'[t] = tcToken' /\ tcToken' # tcToken
               /\ tcExpiration' = tnow[t] + TokenLifetimeMinutes
               /\ lastFetchAt' = tnow[t]
      ]_vars

\* C5 witness: a second fetch, made 51 minutes after the first one
C5_Witness ==
    \E t \in Threads :
        tpc[t] = "done" /\ tfetched[t] /\ tret[t] = 2 /\ tnow[t] = 51

\* all threads have finished a call, all entered it on the same missing or
\* stale cache, and all read `now` within one 50-minute span
AllSameWindow ==
    /\ \A t \in Threads : tpc[t] \in {"done", "raised"} /\ arrStale[t]
    /\ \A t, u \in Threads :
          arrToken[t] = arrToken[u] /\ tnow[t] - tnow[u] <= FreshWindowMinutes

\* C6 as stated: concurrent callers of one cache-miss window cause exactly
\* one provider fetch and every caller returns the token of that fetch.
C6_ExactlyOneFetch ==
    AllSameWindow =>
        /\ Cardinality({t \in Threads : tfetched[t]}) = 1
        /\ \A t, u \in Threads : tpc[t] = "done" /\ tret[t] = tret[u]

\* C6 amended: among concurrent callers of one cache-miss window at most one
\* provider fetch succeeds; every caller that returns, returns the token of
\* that fetch; a caller whose own fetch failed raises, and the next caller
\* fetches again.
C6_OneSuccessfulFetch ==
    AllSameWindow =>
        /\ Cardinality({t \in Threads : tfetched[t] /\ tpc[t] = "done"}) <= 1
        /\ (\E t \in Threads : tpc[t] = "done") =>
               Cardinality({t \in Threads : tfetched[t] /\ tpc[t] = "done"}) = 1
        /\ \A t, u \in Threads :
               tpc[t] = "done" /\ tpc[u] = "done" => tret[t] = tret[u]
        /\ \A t \in Threads : tpc[t] = "done" => tret[t] = arrToken[t] + 1
        /\ \A t \in Threads : tpc[t] = "raised" => tfetched[t] /\ tret[t] = None

\* C6 witness: two callers entered on the same miss, one fetched and the
\* other waited for the lock and returned the token of that fetch
C6_Witness ==
    /\ AllSameWindow
    /\ \E t, u \in Threads :
          /\ tpc[t] = "done" /\ tfetched[t]
          /\ tpc[u] = "done" /\ ~tfetched[u] /\ tret[u] = tret[t]

\* ---------------------------------------------------------- claims C16, C19
\* C16: when the credential provider fails during get_token(), the call
\* raises after that one provider call (no token is issued to it, nothing
\* is returned, no second attempt is made), the cached token and expiry
\* stay as they were when the call took the lock, and the lock is released
\* so that later callers get in.
C16_FetchFailurePropagates ==
    [][\A t \in Threads :
         /\ (tpc[t] = "fetch" /\ tpc'[t] # "fetch") => tpc'[t] \in {"done", "raised"}
         /\ (tpc[t] = "fetch" /\ tpc'[t] = "fetch") => UNCHANGED <<tcToken, tcExpiration>>
         /\ (tpc[t] = "waiting" /\ tpc'[t] = "fetch") =>
                (tcLock' = t /\ UNCHANGED <<tcToken, tcExpiration, issued>>)
         /\ (tpc[t] = "fetch" /\ tpc'[t] = "raised") =>
                /\ tfetched[t] /\ tcLock = t
                /\ UNCHANGED <<tcToken, tcExpiration, issued, lastFetchAt>>
                /\ tret'[t] = None
                /\ tcLock' = None
      ]_vars

\* C16 witness: a refresh of the stale first token failed at minute 51 and
\* left that token cached; a later caller took the lock and fetched the
\* second token
C16_Witness ==
    \E t, u \in Threads :
        /\ tpc[t] = "raised" /\ tnow[t] = 51 /\ tfetched[t]
        /\ tpc[u] = "done" /\ tfetched[u] /\ tret[u] = 2

\* C19 as stated: a token returned by get_token() has, measured against its
\* cached expiry at the time the call read, strictly more than the 5-minute
\* margin left. (The expiry never moves back, so a violation after the
\* return is one at the return.)
C19_MoreThanMargin ==
    \A t \in Threads :
        tpc[t] = "done" => tcExpiration - tnow[t] > RefreshMarginMinutes

\* C19 amended: the returned token has at least the 5-minute margin left; a
\* cached token with exactly 5 minutes left is returned without a fetch.
C19_AtLeastMargin ==
    \A t \in Threads :
        tpc[t] = "done" =>
            /\ tret[t] # None /\ tcExpiration # None
            /\ tcExpiration - tnow[t] >= RefreshMarginMinutes

\* C19 witness: a call 50 minutes after the fetch returned the cached
\* token, which had exactly 5 minutes left
C19_Witness ==
    \E t \in Threads :
        /\ tpc[t] = "done" /\ ~tfetched[t] /\ tret[t] = 1
        /\ tcExpiration - tnow[t] = RefreshMarginMinutes

\* ======================================================= DatabaseConfig
\* Tasks run cooperatively on one event loop: an action is the code between
\* two awaits. The database behind engine.connect() is the environment: a
\* call's plan is the number of its leading connect attempts that fail.
\* a config as the dataclass constructs it (models.py:78-84), read-only or
\* not, with or without the credential placeholder in its URL
ConfigNew ==
    /\ available = TRUE
    /\ engine = None
    /\ read_only \in BOOLEAN
    /\ usesToken \in BOOLEAN
    /\ engineCount = 0
    /\ aborted = FALSE
    /\ disposal = "none"
    /\ task = [p \in Tasks |-> FreshCall]

\* what the database does to a call's engine.connect() attempts: none
\* fails, the first fails and the next would succeed, or all of them fail
PlannedFailures == {0, 1, MaxPlannedFailures}

ConnInit == ConfigNew /\ TokenCacheNew /\ EnvIdle /\ ServerImported /\ NoCallers /\ NothingResolved

\* the connection counts as open from engine.connect() until its release
Release(c) == IF c = "open" THEN "released" ELSE c

\* get_engine (models.py:92-96) with create_engine_for_config (53-74): the
\* engine the config holds afterwards; the n-th engine created has id n
EngineAfterGet == IF engine = None THEN engineCount + 1 ELSE engine

\* models.py:114-115: raise ValueError, nothing else is touched
RaiseUnavailable(p) ==
    /\ task' = [task EXCEPT ![p] =
                  [FreshCall EXCEPT !.pc = "exited", !.outcome = "unavailable"]]
    /\ UNCHANGED <<available, engine, read_only, usesToken, engineCount, aborted, disposal, notConn>>

\* models.py:117: get_engine() creates the engine when there is none, which
\* resolves the URL (86-90: token_cache.get_token() when the URL holds the
\* placeholder, and that call may raise); then 118: engine.connect() is
\* awaited
EnterConnect(p) ==
    \/ /\ engine = None /\ usesToken
       \* get_token() raises inside get_resolved_url: no engine is stored
       /\ task' = [task EXCEPT ![p] =
                     [FreshCall EXCEPT !.pc = "exited", !.outcome = "token_failed",
                                       !.calledToken = TRUE]]
       /\ UNCHANGED <<available, engine, read_only, usesToken, engineCount, aborted, disposal, notConn>>
    \/ /\ engine = None => engineCount < MaxEngines
       /\ \E fails \in PlannedFailures :
            task' = [task EXCEPT ![p] =
                       [FreshCall EXCEPT !.pc = "connecting", !.plan = fails,
                                         !.calledToken = (engine = None /\ usesToken),
                                         !.createdEngine = (engine = None)]]
       /\ engine' = EngineAfterGet
          /\ engineCount' = IF engine = None THEN engineCount + 1 ELSE engineCount
       /\ UNCHANGED <<available, read_only, usesToken, aborted, disposal, notConn>>

\* connection() is entered (models.py:110-118)
ConnectionEnterNoCheck(p) ==
    /\ ~aborted
    /\ task[p].pc \in {"idle", "exited"}
    /\ EnterConnect(p)

ConnectionEnter(p) ==
    /\ ~aborted
    /\ task[p].pc \in {"idle", "exited"}
    /\ IF ~available THEN RaiseUnavailable(p) ELSE EnterConnect(p)

\* engine.connect() succeeds: a connection is checked out (models.py:118),
\* and the version statement is awaited (121)
ConnectOk(p) ==
    /\ ~aborted
    /\ task[p].pc = "connecting"
    /\ task[p].attempts >= task[p].plan
    /\ task' = [task EXCEPT ![p].pc = "tagging", ![p].conn = "open",
                            ![p].attempts = @ + 1]
    /\ UNCHANGED <<available, engine, read_only, usesToken, engineCount, aborted, disposal, notConn>>

\* a failed attempt is followed by another one, up to three in all
ConnectFailRetry(p) ==
    /\ ~aborted
    /\ task[p].pc = "connecting"
    /\ task[p].attempts < task[p].plan
    /\ task' = [task EXCEPT ![p].attempts = @ + 1,
                            ![p].pc = IF task[p].attempts + 1 < 3
                                      THEN "connecting" ELSE "exited",
                            ![p].outcome = IF task[p].attempts + 1 < 3
                                           THEN "none" ELSE "connect_failed"]
    /\ UNCHANGED <<available, engine, read_only, usesToken, engineCount, aborted, disposal, notConn>>

\* engine.connect() raises: nothing in connection() catches it and nothing
\* calls mark_unavailable(); the exception leaves the context manager after
\* this one attempt (models.py:118)
ConnectFail(p) ==
    /\ ~aborted
    /\ task[p].pc = "connecting"
    /\ task[p].attempts < task[p].plan
    /\ task' = [task EXCEPT ![p].pc = "exited", ![p].outcome = "connect_failed",
                            ![p].attempts = @ + 1]
    /\ UNCHANGED <<available, engine, read_only, usesToken, engineCount, aborted, disposal, notConn>>

\* where the code goes after the version statement (models.py:127, 141)
AfterTag == IF read_only THEN "enforcing" ELSE "yielded"

\* the version statement succeeds (models.py:121)
TagOk(p) ==
    /\ ~aborted
    /\ task[p].pc = "tagging"
    /\ task' = [task EXCEPT ![p].pc = AfterTag,
                            ![p].wasYielded = (AfterTag = "yielded")]
    /\ UNCHANGED <<available, engine, read_only, usesToken, engineCount, aborted, disposal, notConn>>

\* the version statement raises an Exception, which is swallowed
\* (models.py:122-124)
TagFail(p) ==
    /\ ~aborted
    /\ task[p].pc = "tagging"
    /\ task' = [task EXCEPT ![p].pc = AfterTag, ![p].tagFailed = TRUE,
                            ![p].wasYielded = (AfterTag = "yielded")]
    /\ UNCHANGED <<available, engine, read_only, usesToken, engineCount, aborted, disposal, notConn>>

\* the read-only statement succeeds: the connection is yielded
\* (models.py:128-134, 141)
EnforceOk(p) ==
    /\ ~aborted
    /\ task[p].pc = "enforcing"
    /\ task' = [task EXCEPT ![p].pc = "yielded", ![p].enforced = TRUE,
                            ![p].wasYielded = TRUE]
    /\ UNCHANGED <<available, engine, read_only, usesToken, engineCount, aborted, disposal, notConn>>

\* the failure of the read-only statement is swallowed like the tagging one
EnforceFailSwallow(p) ==
    /\ ~aborted
    /\ task[p].pc = "enforcing"
    /\ task' = [task EXCEPT ![p].pc = "yielded", ![p].wasYielded = TRUE]
    /\ UNCHANGED <<available, engine, read_only, usesToken, engineCount, aborted, disposal, notConn>>

\* the read-only statement raises: sys.exit(1) raises SystemExit, which
\* leaves `async with engine.connect()` (the connection is released) and
\* ends the process (models.py:135-139)
EnforceFail(p) ==
    /\ ~aborted
    /\ task[p].pc = "enforcing"
    /\ task' = [task EXCEPT ![p].pc = "exited", ![p].outcome = "aborted",
                            ![p].conn = Release(@)]
    /\ aborted' = TRUE
    /\ UNCHANGED <<available, engine, read_only, usesToken, engineCount, disposal, notConn>>

\* the caller's block under `async with config.connection()` ends normally
\* (server.py:237-258): the generator resumes after the yield and leaves
\* `async with engine.connect()` (models.py:118, 141)
BlockDone(p) ==
    /\ ~aborted
    /\ task[p].pc = "yielded"
    /\ task' = [task EXCEPT ![p].pc = "exited", ![p].outcome = "completed",
                            ![p].conn = Release(@)]
    /\ UNCHANGED <<available, engine, read_only, usesToken, engineCount, aborted, disposal, notConn>>

\* the exception of the caller's block is not passed through a releasing scope
BlockRaiseLeak(p) ==
    /\ ~aborted
    /\ task[p].pc = "yielded"
    /\ task' = [task EXCEPT ![p].pc = "exited", ![p].outcome = "block_raised"]
    /\ UNCHANGED <<available, engine, read_only, usesToken, engineCount, aborted, disposal, notConn>>

\* the caller's block raises (server.py:238-258): the exception is thrown
\* into the generator at the yield and leaves `async with engine.connect()`
BlockRaise(p) ==
    /\ ~aborted
    /\ task[p].pc = "yielded"
    /\ task' = [task EXCEPT ![p].pc = "exited", ![p].outcome = "block_raised",
                            ![p].conn = Release(@)]
    /\ UNCHANGED <<available, engine, read_only, usesToken, engineCount, aborted, disposal, notConn>>

\* the task is cancelled at one of its awaits: CancelledError is no
\* Exception, so neither except clause of connection() catches it; it
\* leaves `async with engine.connect()` when a connection is open. After
\* sys.exit the event loop's shutdown cancels the tasks still running.
Cancel(p) ==
    /\ task[p].pc \in {"connecting", "tagging", "enforcing", "yielded"}
    /\ task' = [task EXCEPT ![p].pc = "exited", ![p].outcome = "cancelled",
                            ![p].conn = Release(@)]
    /\ UNCHANGED <<available, engine, read_only, usesToken, engineCount, aborted, disposal, notConn>>

\* get_engine() called on its own (models.py:92-96)
GetEngine ==
    /\ ~aborted
    /\ engine = None
    /\ engineCount < MaxEngines
    /\ engine' = EngineAfterGet
    /\ engineCount' = engineCount + 1
    /\ UNCHANGED <<available, read_only, usesToken, aborted, task, disposal, notConn>>

\* what creating the disposal task can do (models.py:104): the task is
\* scheduled, or the call raises (asyncio.create_task without a running
\* event loop raises RuntimeError)
DisposalOutcomes == {"scheduled", "failed"}

\* the exception of the disposal leaves mark_unavailable(): line 107 is not
\* reached
MarkUnavailableRaises ==
    /\ ~aborted
    /\ available' = FALSE
    /\ \/ /\ engine # None
          /\ \/ disposal' = "scheduled" /\ engine' = None
             \/ disposal' = "failed" /\ engine' = engine
       \/ /\ engine = None
          /\ UNCHANGED <<engine, disposal>>
    /\ UNCHANGED <<read_only, usesToken, engineCount, aborted, task, notConn>>

\* mark_unavailable() (models.py:98-107): the flag is cleared; with an
\* engine held its disposal is started inside try/except Exception, which
\* swallows a failure (102-106); the handle is dropped either way (107)
MarkUnavailable ==
    /\ ~aborted
    /\ available' = FALSE
    /\ IF engine # None
       THEN disposal' \in DisposalOutcomes
       ELSE UNCHANGED disposal
    /\ engine' = None
    /\ UNCHANGED <<read_only, usesToken, engineCount, aborted, task, notConn>>

ConnNext ==
    \/ \E p \in Tasks : ConnectionEnter(p)
    \/ \E p \in Tasks : ConnectOk(p)
    \/ \E p \in Tasks : ConnectFail(p)
    \/ \E p \in Tasks : TagOk(p)
    \/ \E p \in Tasks : TagFail(p)
    \/ \E p \in Tasks : EnforceOk(p)
    \/ \E p \in Tasks : EnforceFail(p)
    \/ \E p \in Tasks : BlockDone(p)
    \/ \E p \in Tasks : BlockRaise(p)
    \/ \E p \in Tasks : Cancel(p)
    \/ GetEngine
    \/ MarkUnavailable

ConnSpec == ConnInit /\ [][ConnNext]_vars

\* ------------------------------------------------ claims C1, C2, C3, C4, C7
\* the call of task p is over and was neither cancelled nor cut short by
\* the process exiting
Finished(p) ==
    task[p].pc = "exited" /\ task[p].outcome \notin {"cancelled", "aborted"}

\* C1 as stated: a connect() call whose first connection attempt fails,
\* while a second one would succeed, yields a connection to the caller and
\* leaves the config available.
C1_RetryRecovers ==
    \A p \in Tasks :
        (Finished(p) /\ task[p].plan = 1 /\ task[p].attempts >= 1) =>
            (task[p].wasYielded /\ available)

\* C2: a connection yielded on a read-only config has had the read-only
\* statement succeed on it before the yield; when that statement fails the
\* process aborts and the call yields nothing.
C2_ReadOnlyEnforced ==
    /\ \A p \in Tasks :
          /\ (read_only /\ task[p].wasYielded) => task[p].enforced
          /\ (read_only /\ task[p].pc = "yielded") => task[p].enforced
          /\ task[p].outcome = "aborted" =>
                (read_only /\ aborted /\ ~task[p].wasYielded)
    /\ aborted <=> \E p \in Tasks : task[p].outcome = "aborted"

\* C2 witness: on a read-only config one call was yielded its connection
\* after enforcement and another call's enforcement failed
C2_Witness ==
    /\ read_only
    /\ \E p, q \in Tasks :
          /\ task[p].outcome = "aborted" /\ task[p].conn = "released"
          /\ task[q].wasYielded /\ task[q].enforced

\* C3: connect() on an unavailable config raises at once: no token fetch,
\* no engine creation, no connection attempt, and the config's engine and
\* availability stay as they were.
C3_UnavailableFailsFast ==
    [][\A p \in Tasks :
         (~available /\ task[p].pc \in {"idle", "exited"} /\ task'[p] # task[p]) =>
            /\ task'[p].pc = "exited" /\ task'[p].outcome = "unavailable"
            /\ ~task'[p].calledToken /\ ~task'[p].createdEngine
            /\ task'[p].attempts = 0 /\ task'[p].conn = "none"
            /\ ~task'[p].wasYielded
            /\ UNCHANGED <<available, engine, engineCount>>
      ]_vars

\* C3 witness: a call was refused as unavailable while the config held an
\* engine (made by get_engine() after mark_unavailable())
C3_Witness ==
    /\ ~available /\ engine # None
    /\ \E p \in Tasks : task[p].pc = "exited" /\ task[p].outcome = "unavailable"

\* C4: when every connection attempt fails, connect() makes at most two
\* attempts, the failure reaches the caller, and nothing is yielded.
C4_AtMostTwoAttempts ==
    \A p \in Tasks :
        task[p].plan = MaxPlannedFailures =>
            /\ task[p].attempts <= 2
            /\ ~task[p].wasYielded
            /\ task[p].conn = "none"
            /\ task[p].pc \in {"connecting", "exited"}
            /\ task[p].pc = "exited" =>
                  task[p].outcome \in {"connect_failed", "cancelled"}

\* C4 witness: a call all of whose attempts fail has raised to its caller
C4_Witness ==
    \E p \in Tasks :
        /\ task[p].plan = MaxPlannedFailures /\ task[p].attempts >= 1
        /\ task[p].pc = "exited" /\ task[p].outcome = "connect_failed"

\* C7: a connection opened by connect() is released on every way out of
\* the scope: the block completing, raising or being cancelled, a swallowed
\* tagging failure before it, and the read-only abort. No call that has
\* exited holds an open connection.
C7_ReleasedOnEveryExit ==
    \A p \in Tasks :
        /\ task[p].conn = "open" => task[p].pc \in {"tagging", "enforcing", "yielded"}
        /\ task[p].pc = "exited" =>
              /\ task[p].conn # "open"
              /\ task[p].outcome \in {"completed", "block_raised", "aborted"} =>
                    task[p].conn = "released"
              /\ task[p].wasYielded => task[p].conn = "released"

\* C7 witness: one call's block raised after a swallowed tagging failure,
\* another call was cancelled with its connection open; both are released
C7_Witness ==
    \E p, q \in Tasks :
        /\ task[p].outcome = "block_raised" /\ task[p].tagFailed
        /\ task[p].conn = "released"
        /\ task[q].outcome = "cancelled" /\ task[q].conn = "released"

\* ------------------------------------------------- claims C12, C17, C20
\* the config's engine was torn down and nulled: an engine was created
\* before and the handle is None again
EngineTornDown == engine = None /\ engineCount >= 1

\* C12 as stated: after the engine handle has been torn down and nulled,
\* the next connect() on the config creates a new engine handle and goes on
\* to a connection attempt instead of failing without one (a call that the
\* credential provider fails is left out).
C12_EngineRecreated ==
    [][\A p \in Tasks :
         (/\ EngineTornDown
          /\ task[p].pc \in {"idle", "exited"} /\ task'[p] # task[p]
          /\ task'[p].outcome # "token_failed") =>
            /\ task'[p].pc = "connecting"
            /\ task'[p].createdEngine
            /\ engine' # None
      ]_vars

\* C17 as stated: whatever get_engine(), mark_unavailable() and connect()
\* calls were made, an unavailable config holds no engine handle.
C17_UnavailableHoldsNoEngine == ~available => engine = None

\* C20: a failing best-effort step changes nothing about the operation
\* around it. A call whose tagging statement fails goes on, with its
\* connection open, to read-only enforcement (read-only config) or to the
\* yield, exactly where a call whose tagging succeeded goes, and from
\* enforcement it is yielded unless enforcement itself fails or the task
\* is cancelled. A mark_unavailable() whose disposal fails still leaves
\* available == false and engine == None.
C20_BestEffortDiscarded ==
    [][/\ \A p \in Tasks :
            /\ (task[p].pc = "tagging" /\ task'[p].pc # "tagging"
                 /\ task'[p].outcome # "cancelled") =>
                   /\ task'[p].pc = (IF read_only THEN "enforcing" ELSE "yielded")
                   /\ task'[p].conn = "open" /\ task'[p].outcome = "none"
                   /\ task'[p].wasYielded = ~read_only
            /\ (task[p].pc = "enforcing" /\ task[p].tagFailed
                 /\ task'[p].pc # "enforcing") =>
                   \/ task'[p].pc = "yielded" /\ task'[p].wasYielded /\ task'[p].enforced
                   \/ task'[p].outcome \in {"aborted", "cancelled"}
       /\ (available' # available \/ disposal' # disposal) =>
            (available' = FALSE /\ engine' = None /\ UNCHANGED <<task, aborted>>)
      ]_vars

\* C20 witness: on a read-only config a call's tagging failed and the call
\* was enforced and yielded; afterwards mark_unavailable() dropped the
\* engine although its disposal failed
C20_Witness ==
    /\ read_only /\ ~available /\ engine = None /\ disposal = "failed"
    /\ \E p \in Tasks :
          task[p].tagFailed /\ task[p].enforced /\ task[p].wasYielded

\* ====================================================== DatabaseManager
\* The keys process configuration may hold: three per-database entries (two
\* of them with the same name up to letter case), the single-database
\* DB_URL, read-only settings and a description.
NameAB == <<"A","B">>
Nameab == <<"a","b">>
NameB == <<"B">>
UrlKey(part) == DB_ \o part \o _URL
DescKey(part) == DB_ \o part \o _DESC
ReadOnlyKey(part) == DB_ \o part \o _READ_ONLY

EnvKeys ==
    {UrlKey(NameAB), UrlKey(Nameab), UrlKey(NameB), DB_URL,
     ReadOnlyKey(NameAB), DB_READ_ONLY, ReadOnlyKey(<<>>), DescKey(NameAB)}

ReadOnlyKeys == {ReadOnlyKey(NameAB), DB_READ_ONLY, ReadOnlyKey(<<>>)}
ReadOnlyValues == {<<"T","r","u","e">>, <<"n","o">>}

\* the value a key has when it is set: a read-only literal, or a text that
\* names the key
ValueOf(k, ro) == IF k \in ReadOnlyKeys THEN ro[k] ELSE <<"v", ":">> \o k

Unset == [set |-> FALSE, value |-> <<>>]

\* os.environ.get(key, '')
EnvironGet(key) ==
    IF key \in EnvKeys /\ environ[key].set THEN environ[key].value ELSE <<>>

\* `key in os.environ`
EnvironHas(key) == key \in EnvKeys /\ environ[key].set

\* `db_name in manager.databases` (models.py:170)
IsDuplicateNever(db_name) == FALSE

IsDuplicate(db_name) == \E c \in databases : c.name = db_name

\* manager.databases[db_name] = DatabaseConfig(...): a dict holds one value
\* per key
DictSet(dbs, cfg) == {c \in dbs : c.name # cfg.name} \cup {cfg}

\* the literal test of models.py:181 and 194
IsTruthy(value) == Lower(value) \in TruthyLiterals

\* from_environment() starts on some process configuration (models.py:161)
EnvInit ==
    /\ \E present \in SUBSET EnvKeys : \E ro \in [ReadOnlyKeys -> ReadOnlyValues] :
          /\ environ = [k \in EnvKeys |->
                          IF k \in present
                          THEN [set |-> TRUE, value |-> ValueOf(k, ro)]
                          ELSE Unset]
          /\ remaining = present
    /\ databases = {}
    /\ mpc = "loop"
    /\ lookup = <<>>
    /\ TokenCacheNew /\ ConnIdle /\ ServerImported /\ NoCallers /\ NothingResolved

\* one iteration of `for key, value in os.environ.items()` (models.py:163-188)
LoopStep(key) ==
    /\ mpc = "loop"
    /\ key \in remaining
    /\ IF StartsWith(key, DB_) /\ EndsWith(key, _URL)
       THEN LET db_name_part == NamePart(key)
                db_name == Lower(db_name_part)
            IN  IF IsDuplicate(db_name)
                THEN /\ mpc' = "exited"
                     /\ UNCHANGED <<remaining, databases>>
                ELSE /\ databases' = DictSet(databases,
                            [name |-> db_name,
                             url |-> environ[key].value,
                             description |-> EnvironGet(DescKey(db_name_part)),
                             read_only |-> IsTruthy(EnvironGet(ReadOnlyKey(db_name_part)))])
                     /\ remaining' = remaining \ {key}
                     /\ mpc' = mpc
       ELSE /\ remaining' = remaining \ {key}
            /\ UNCHANGED <<databases, mpc>>
    /\ UNCHANGED <<environ, lookup, notEnv>>

\* after the loop: the DB_URL fallback, then the manager is returned
\* (models.py:190-207)
LoopEnd ==
    /\ mpc = "loop"
    /\ remaining = {}
    /\ IF databases = {}
       THEN IF EnvironHas(DB_URL)
            THEN /\ databases' = DictSet(databases,
                        [name |-> Default,
                         url |-> environ[DB_URL].value,
                         description |-> DefaultDescription,
                         read_only |-> IsTruthy(EnvironGet(DB_READ_ONLY))])
                 /\ mpc' = "ready"
            ELSE /\ mpc' = "exited"
                 /\ UNCHANGED databases
       ELSE /\ mpc' = "ready"
            /\ UNCHANGED databases
    /\ UNCHANGED <<environ, remaining, lookup, notEnv>>

\* the names get_database() is called with
LookupNames ==
    {<<"a","b">>, <<"A","B">>, <<"A","b">>, <<"b">>, <<"B">>, <<"c">>,
     <<>>, Default, <<"D","e","f","a","u","l","t">>}

\* get_database(name) on the manager from_environment returned
\* (models.py:209-214)
GetDatabase(given) ==
    /\ mpc = "ready"
    /\ given \in LookupNames
    /\ LET name == Lower(given)
       IN  lookup' = IF \E c \in databases : c.name = name
                     THEN [given |-> given, result |-> "found",
                           config |-> CHOOSE c \in databases : c.name = name]
                     ELSE [given |-> given, result |-> "not_configured",
                           config |-> [name |-> <<>>, url |-> <<>>,
                                       description |-> <<>>, read_only |-> FALSE]]
    /\ UNCHANGED <<environ, remaining, databases, mpc, notEnv>>

EnvNext ==
    \/ \E key \in EnvKeys : LoopStep(key)
    \/ LoopEnd
    \/ \E given \in LookupNames : GetDatabase(given)

EnvSpec == EnvInit /\ [][EnvNext]_vars

\* ------------------------------------------------------ claims C8, C9, C10
\* the named per-database entries of process configuration: the keys
\* DB_<NAME>_URL with a name between prefix and suffix
NamedEntries ==
    {k \in EnvKeys : /\ environ[k].set
                     /\ StartsWith(k, DB_) /\ EndsWith(k, _URL)
                     /\ Len(k) > Len(DB_) + Len(_URL)}

\* the name an entry carries, case-folded
FoldedName(k) == Lower(SubSeq(k, Len(DB_) + 1, Len(k) - Len(_URL)))

NamesDistinct ==
    \A k1, k2 \in NamedEntries : k1 # k2 => FoldedName(k1) # FoldedName(k2)

\* from_environment() is over
Constructed == mpc \in {"ready", "exited"}

\* C8 as stated: with no named entry and DB_URL set, from_environment()
\* builds a manager of exactly one config, named 'default', read-only as
\* DB_READ_ONLY says; with no named entry and no DB_URL the process exits.
C8_DefaultFallback ==
    /\ (Constructed /\ NamedEntries = {} /\ EnvironHas(DB_URL)) =>
          /\ mpc = "ready"
          /\ Cardinality(databases) = 1
          /\ \A c \in databases :
                /\ c.name = Default
                /\ c.url = environ[DB_URL].value
                /\ c.read_only = IsTruthy(EnvironGet(DB_READ_ONLY))
    /\ (Constructed /\ NamedEntries = {} /\ ~EnvironHas(DB_URL)) => mpc = "exited"

\* the part of C8 the code keeps: without any named entry and without
\* DB_URL no manager is built
C8_NothingConfiguredExits ==
    (Constructed /\ NamedEntries = {} /\ ~EnvironHas(DB_URL)) =>
        (mpc = "exited" /\ databases = {})

\* what get_database(given) must give on a manager built from the named
\* entries alone
ExpectedLookup(given) ==
    IF \E k \in NamedEntries : FoldedName(k) = Lower(given)
    THEN "found" ELSE "not_configured"

\* C9 as stated: a manager built from N named entries with names distinct
\* after case-folding holds exactly N configs; get_database() finds each by
\* any letter-case variant of its name and reports any other name as not
\* configured.
C9_RoundTrip ==
    (mpc = "ready" /\ NamedEntries # {} /\ NamesDistinct) =>
        /\ Cardinality(databases) = Cardinality(NamedEntries)
        /\ \A k \in NamedEntries :
              \E c \in databases : c.name = FoldedName(k) /\ c.url = environ[k].value
        /\ lookup # <<>> =>
              /\ lookup.result = ExpectedLookup(lookup.given)
              /\ lookup.result = "found" => lookup.config.name = Lower(lookup.given)

\* C9 where the code agrees with it: the same statement for process
\* configuration in which DB_URL is not set
C9_RoundTripWithoutDbUrl == ~EnvironHas(DB_URL) => C9_RoundTrip

\* two named entries carry the same name after case-folding
DuplicateNames ==
    \E k1, k2 \in NamedEntries : k1 # k2 /\ FoldedName(k1) = FoldedName(k2)

\* C10: with two entries whose names are equal after case-folding,
\* from_environment() ends in sys.exit and returns no manager, so no config
\* is looked up or used, whatever was parsed before the duplicate was seen.
C10_DuplicateExits ==
    DuplicateNames =>
        /\ mpc \in {"loop", "exited"}
        /\ mpc = "loop" =>
              \E k \in remaining \cap NamedEntries :
                 \E k2 \in NamedEntries : k2 # k /\ FoldedName(k2) = FoldedName(k)
        /\ lookup = <<>>

\* C10 witness: the process has exited on the duplicate after another
\* entry had already been parsed into the dict
C10_Witness ==
    /\ DuplicateNames /\ mpc = "exited"
    /\ \E c \in databases : c.name = <<"b">>

\* ============================================ server module, QueryResult
\* A raw result is the sequence of its rows; a row is the list of its
\* values. max_rows is None (no element) or an integer (one element).
RowValues == {<<1>>, <<2>>}
RawResults == UNION {[1..n -> RowValues] : n \in 0..MaxRawRows}
NoMax == <<>>
RowLimits == {NoMax} \cup {<<n>> : n \in 0..MaxRowLimit}

\* the truth value Python gives max_rows in `if max_rows and ...`
\* (models.py:47): None and 0 are false
Truthy(max_rows) == max_rows # NoMax /\ max_rows[1] # 0

\* list(result.keys()) (models.py:29): the rows here have one column
Columns == <<"c">>

\* the loop of models.py:34-36: every row is counted and appended
RECURSIVE CollectRows(_, _)
CollectRows(result, acc) ==
    IF result = <<>> THEN acc
    ELSE CollectRows(Tail(result),
                     [rows |-> Append(acc.rows, Head(result)),
                      database_row_count |-> acc.database_row_count + 1])

\* QueryResult.from_sqlalchemy_result(result, max_rows) (models.py:26-51)
from_sqlalchemy_result(result, max_rows) ==
    LET collected == CollectRows(result, [rows |-> <<>>, database_row_count |-> 0])
        instance == [columns |-> Columns,
                     rows |-> collected.rows,
                     database_row_count |-> collected.database_row_count,
                     truncated |-> FALSE]
    IN  IF Truthy(max_rows) /\ instance.database_row_count > max_rows[1]
        THEN [instance EXCEPT !.truncated = TRUE,
                              !.rows = SubSeq(instance.rows, 1, max_rows[1])]
        ELSE instance

\* the computed field returned_row_count (models.py:20-24)
returned_row_count(instance) == Len(instance.rows)

\* QueryResult(columns=[], rows=[], database_row_count=rowcount,
\* truncated=False) (server.py:242-248)
RowcountResult(rowcount) ==
    [columns |-> <<>>, rows |-> <<>>, database_row_count |-> rowcount,
     truncated |-> FALSE]

NoResult == RowcountResult(0)

\* the parameters of from_sqlalchemy_result after cls (models.py:27)
FromSqlalchemyResultParams == <<"result", "max_rows">>

\* Python's argument binding: positional arguments fill the parameters in
\* order, then each keyword must name a parameter not yet filled; anything
\* else raises TypeError
BindsCleanly(params, npositional, keywords) ==
    /\ npositional <= Len(params)
    /\ \A k \in keywords :
          \E i \in (npositional + 1)..Len(params) : params[i] = k

\* f"Available databases:\n{AVAILABLE_DATABASES}" (server.py:88, 217)
ListingPrefix ==
    <<"A","v","a","i","l","a","b","l","e"," ",
      "d","a","t","a","b","a","s","e","s",":","\n">>

\* validate_or_elicit_database (server.py:26-52): the name when the manager
\* has it, else what the elicitation gave (the empty string stands for None)
ValidateOrElicit(database, elicited) ==
    IF database # <<>> /\ database \in ManagerNameSet THEN database ELSE elicited

\* the names a tool is called with (one configured, one not, none) and
\* what the elicitation gives (a configured name, or nothing)
RequestedDatabases == {<<"b">>, <<"c">>, <<>>}
Elicited == {<<"a","b">>, <<>>}

\* what a statement does once it is sent: whether engine.connect() and
\* connection.execute() succeed, whether rows come back
\* (cursor_result.returns_rows), the rows, and cursor_result.rowcount
Statements ==
    [connects : BOOLEAN, executes : BOOLEAN, returns_rows : BOOLEAN,
     rows : {<< <<1>>, <<2>> >>}, rowcount : {1}]

\* a tool call's result: returned or raised, the step the exception came
\* from, the text or the QueryResult returned
ToolResult(tool, outcome, stage, text, result) ==
    [tool |-> tool, outcome |-> outcome, stage |-> stage, text |-> text,
     result |-> result]

\* config.mark_unavailable() on a config of the manager (models.py:98-100)
ConfigMarkedUnavailable(d) ==
    /\ managerAvailable[d]
    /\ managerAvailable' = [managerAvailable EXCEPT ![d] = FALSE]
    /\ UNCHANGED <<AVAILABLE_DATABASES, listing, handler, built, notServer>>

\* database_manager.get_available_databases() (models.py:220-222)
GetAvailableDatabases ==
    /\ listing' = [by |-> "get_available_databases",
                   value |-> AvailableOf(ManagerNames, managerAvailable),
                   at |-> managerAvailable]
    /\ UNCHANGED <<managerAvailable, AVAILABLE_DATABASES, handler, built, notServer>>

\* database_manager.get_available_databases_text() (models.py:224-226)
GetAvailableDatabasesText ==
    /\ listing' = [by |-> "get_available_databases_text",
                   value |-> JoinLines(AvailableOf(ManagerNames, managerAvailable)),
                   at |-> managerAvailable]
    /\ UNCHANGED <<managerAvailable, AVAILABLE_DATABASES, handler, built, notServer>>

\* the text a handler returns when no database was settled on
\* (server.py:87-88, 216-217): built from the constant computed at import
HandlerListing == ListingPrefix \o AVAILABLE_DATABASES

\* get_table_names (server.py:81-99): no try/except, so what connection()
\* or the inspection raises leaves the handler
GetTableNames(database, elicited, connects) ==
    /\ LET db == ValidateOrElicit(database, elicited)
       IN  IF db = <<>>
           THEN /\ handler' = ToolResult("get_table_names", "returned", "none",
                                         HandlerListing, NoResult)
                /\ listing' = [by |-> "get_table_names", value |-> HandlerListing,
                               at |-> managerAvailable]
           ELSE /\ handler' =
                     IF ~managerAvailable[Lower(db)]
                     THEN ToolResult("get_table_names", "raised", "unavailable", <<>>, NoResult)
                     ELSE IF ~connects
                     THEN ToolResult("get_table_names", "raised", "connect", <<>>, NoResult)
                     ELSE ToolResult("get_table_names", "returned", "none", <<"t">>, NoResult)
                /\ UNCHANGED listing
    /\ UNCHANGED <<managerAvailable, AVAILABLE_DATABASES, built, notServer>>

\* the try block of execute_query (server.py:235-258) for database db and
\* statement stmt: where it ends and with what
ExecuteQueryTry(db, stmt) ==
    IF ~managerAvailable[Lower(db)]
    THEN [raised |-> TRUE, stage |-> "unavailable", result |-> NoResult]
    ELSE IF ~stmt.connects
    THEN [raised |-> TRUE, stage |-> "connect", result |-> NoResult]
    ELSE IF ~stmt.executes
    THEN [raised |-> TRUE, stage |-> "execute", result |-> NoResult]
    ELSE IF ~stmt.returns_rows
    THEN [raised |-> FALSE, stage |-> "none", result |-> RowcountResult(stmt.rowcount)]
    \* server.py:253: from_sqlalchemy_result(database, cursor_result,
    \* max_rows=MAX_ROWS), two positional arguments and the keyword max_rows
    ELSE IF ~BindsCleanly(FromSqlalchemyResultParams, 2, {"max_rows"})
    THEN [raised |-> TRUE, stage |-> "build", result |-> NoResult]
    ELSE [raised |-> FALSE, stage |-> "none",
          result |-> from_sqlalchemy_result(stmt.rows, <<MAX_ROWS>>)]

\* execute_query (server.py:208-261): `except Exception as e: raise e`
\* hands every exception of the try block on to the caller
ExecuteQuery(database, elicited, stmt) ==
    /\ LET db == ValidateOrElicit(database, elicited)
       IN  IF db = <<>>
           THEN /\ handler' = ToolResult("execute_query", "returned", "none",
                                         HandlerListing, NoResult)
                /\ listing' = [by |-> "execute_query", value |-> HandlerListing,
                               at |-> managerAvailable]
           ELSE /\ LET tried == ExecuteQueryTry(db, stmt)
                   IN  handler' = ToolResult("execute_query",
                                             IF tried.raised THEN "raised" ELSE "returned",
                                             tried.stage, <<>>, tried.result)
                /\ UNCHANGED listing
    /\ UNCHANGED <<managerAvailable, AVAILABLE_DATABASES, built, notServer>>

\* QueryResult.from_sqlalchemy_result(result, max_rows) called on its own
BuildQueryResult(result, max_rows) ==
    /\ built' = [raw |-> result, max_rows |-> max_rows,
                 instance |-> from_sqlalchemy_result(result, max_rows)]
    /\ UNCHANGED <<managerAvailable, AVAILABLE_DATABASES, listing, handler, notServer>>

ServerInit == ServerImported /\ TokenCacheNew /\ ConnIdle /\ EnvIdle /\ NoCallers /\ NothingResolved

ServerNext ==
    \/ \E d \in ManagerNameSet : ConfigMarkedUnavailable(d)
    \/ GetAvailableDatabases
    \/ GetAvailableDatabasesText
    \/ \E database \in RequestedDatabases : \E elicited \in Elicited :
          \E connects \in BOOLEAN : GetTableNames(database, elicited, connects)
    \/ \E database \in RequestedDatabases : \E elicited \in Elicited :
          \E stmt \in Statements : ExecuteQuery(database, elicited, stmt)
    \/ \E result \in RawResults : \E max_rows \in RowLimits :
          BuildQueryResult(result, max_rows)

ServerSpec == ServerInit /\ [][ServerNext]_vars

\* ------------------------------------------------- claims C11, C14, C15
\* what C11 asks of the QueryResult built from `raw` under the maximum max
SatisfiesBounding(instance, raw, max) ==
    /\ instance.database_row_count = Len(raw)
    /\ returned_row_count(instance) = Len(instance.rows)
    /\ IF instance.database_row_count > max
       THEN instance.truncated /\ instance.rows = SubSeq(raw, 1, max)
       ELSE ~instance.truncated /\ instance.rows = raw

\* the first half of C11, of from_sqlalchemy_result called on its own
C11_DirectCallBounded ==
    (built # <<>> /\ built.max_rows # NoMax) =>
        SatisfiesBounding(built.instance, built.raw, built.max_rows[1])

\* C11 as stated: for every raw row sequence and every configured maximum
\* the QueryResult built by from_sqlalchemy_result counts all raw rows,
\* reports len(rows) as returned, and holds the first max rows with
\* truncated set when there are more than max rows, else all rows with
\* truncated clear; execute_query returns the result built that way with
\* the maximum 10000 for a statement that returns rows.
C11_BoundedResult ==
    /\ C11_DirectCallBounded
    /\ (handler # <<>> /\ handler.tool = "execute_query") =>
          handler.stage # "build"

\* the part of C11 the code keeps: the same statement of
\* from_sqlalchemy_result for a maximum of at least one
C11_BoundedResultPositiveMax ==
    (built # <<>> /\ built.max_rows # NoMax /\ built.max_rows[1] >= 1) =>
        SatisfiesBounding(built.instance, built.raw, built.max_rows[1])

\* the listing of kind `by` that shows exactly the configs available under
\* the flags `flags`
ExpectedListing(by, flags) ==
    IF by = "get_available_databases"
    THEN AvailableOf(ManagerNames, flags)
    ELSE IF by = "get_available_databases_text"
    THEN JoinLines(AvailableOf(ManagerNames, flags))
    ELSE ListingPrefix \o JoinLines(AvailableOf(ManagerNames, flags))

\* C14 as stated: every listing of databases (get_available_databases,
\* get_available_databases_text and the listing text of the tool handlers)
\* holds exactly the configs whose available flag was true when it was
\* produced.
C14_ListingShowsAvailable ==
    listing # <<>> => listing.value = ExpectedListing(listing.by, listing.at)

\* the part of C14 the code keeps: the two manager listings
C14_ManagerListingShowsAvailable ==
    (listing # <<>> /\ listing.by \in {"get_available_databases",
                                        "get_available_databases_text"}) =>
        listing.value = ExpectedListing(listing.by, listing.at)

\* C15 as stated: a failure raised while execute_query runs the statement
\* on its acquired connection is returned to the caller as a failure
\* result and never raised out of the handler.
C15_FailureReturned ==
    (handler # <<>> /\ handler.tool = "execute_query" /\ handler.stage = "execute") =>
        handler.outcome = "returned"

\* ==================================== DatabaseConfig under threads
\* Threads call get_engine(), connection() and mark_unavailable() on one
\* config; nothing in DatabaseConfig takes a lock, so the threads interleave
\* between the statements of these methods. A step is one statement.
FinalPcs == {"idle", "returned", "closed", "failed", "rejected", "no_engine", "marked"}

EngineInit == NoCallers /\ ConnIdle /\ TokenCacheNew /\ EnvIdle /\ ServerImported /\ NothingResolved

\* a thread calls get_engine() (models.py:92)
GetEngineCall(t) ==
    /\ callers[t].pc \in FinalPcs
    /\ callers' = [callers EXCEPT ![t] =
                     [IdleCaller EXCEPT !.pc = "test", !.op = "get_engine"]]
    /\ UNCHANGED <<available, engine, engineCount, disposal, live, scheduled, notEngine>>

\* a thread enters connection() (models.py:110-117): an unavailable config
\* raises ValueError, else get_engine() is called
ConnectCall(t) ==
    /\ callers[t].pc \in FinalPcs
    /\ callers' = [callers EXCEPT ![t] =
                     IF ~available
                     THEN [IdleCaller EXCEPT !.pc = "rejected", !.op = "connect"]
                     ELSE [IdleCaller EXCEPT !.pc = "test", !.op = "connect",
                              !.afterFailure = (\E u \in Callers : callers[u].pc = "failed")]]
    /\ UNCHANGED <<available, engine, engineCount, disposal, live, scheduled, notEngine>>

\* `if self.engine is None` (models.py:94)
GeTest(t) ==
    /\ callers[t].pc = "test"
    /\ callers' = [callers EXCEPT ![t].pc = IF engine = None THEN "create" ELSE "return"]
    /\ UNCHANGED <<available, engine, engineCount, disposal, live, scheduled, notEngine>>

\* `self.engine = create_engine_for_config(self)` (models.py:95): a new
\* engine is created and stored, whatever the handle holds by now
GeCreate(t) ==
    /\ callers[t].pc = "create"
    /\ engineCount < MaxCreated
    /\ engineCount' = engineCount + 1
    /\ engine' = engineCount + 1
    /\ live' = live \cup {engineCount + 1}
    /\ callers' = [callers EXCEPT ![t].pc = "return"]
    /\ UNCHANGED <<available, disposal, scheduled, notEngine>>

\* `return self.engine` (models.py:96) reads the handle again; connection()
\* goes on to engine.connect() (118), which on None raises AttributeError
GeReturn(t) ==
    /\ callers[t].pc = "return"
    /\ callers' = [callers EXCEPT ![t].pc = IF callers[t].op = "get_engine" THEN "returned"
                                     ELSE IF engine = None THEN "no_engine"
                                     ELSE "connecting"]
    /\ UNCHANGED <<available, engine, engineCount, disposal, live, scheduled, notEngine>>

\* engine.connect() succeeds (models.py:118); the steps on the open
\* connection (119-141) do not touch the config's flag or handle
ConnectOpens(t) ==
    /\ callers[t].pc = "connecting"
    /\ callers' = [callers EXCEPT ![t].pc = "open"]
    /\ UNCHANGED <<available, engine, engineCount, disposal, live, scheduled, notEngine>>

\* the failing connection attempt marks the config unavailable
ConnectFailsDisables(t) ==
    /\ callers[t].pc = "connecting"
    /\ callers' = [callers EXCEPT ![t].pc = "failed"]
    /\ available' = FALSE
    /\ engine' = None
    /\ UNCHANGED <<engineCount, disposal, live, scheduled, notEngine>>

\* engine.connect() raises (models.py:118): the exception leaves
\* connection() and reaches the caller
ConnectFails(t) ==
    /\ callers[t].pc = "connecting"
    /\ callers' = [callers EXCEPT ![t].pc = "failed"]
    /\ UNCHANGED <<available, engine, engineCount, disposal, live, scheduled, notEngine>>

\* the scope of connection() is left and the connection released
\* (models.py:118, 141)
ConnectCloses(t) ==
    /\ callers[t].pc = "open"
    /\ callers' = [callers EXCEPT ![t].pc = "closed"]
    /\ UNCHANGED <<available, engine, engineCount, disposal, live, scheduled, notEngine>>

\* mark_unavailable() up to its last statement (models.py:98-106): the flag
\* is cleared and, with an engine held, the task disposing it is created,
\* or creating it raises and the exception is swallowed
MarkCall(t) ==
    /\ callers[t].pc \in FinalPcs
    /\ available' = FALSE
    /\ IF engine # None
       THEN \E outcome \in DisposalOutcomes :
               /\ disposal' = outcome
               /\ scheduled' = IF outcome = "scheduled"
                               THEN scheduled \cup {engine} ELSE scheduled
       ELSE UNCHANGED <<disposal, scheduled>>
    /\ callers' = [callers EXCEPT ![t] = [IdleCaller EXCEPT !.pc = "clear", !.op = "mark"]]
    /\ UNCHANGED <<engine, engineCount, live, notEngine>>

\* `self.engine = None` (models.py:107)
MuClear(t) ==
    /\ callers[t].pc = "clear"
    /\ engine' = None
    /\ callers' = [callers EXCEPT ![t].pc = "marked"]
    /\ UNCHANGED <<available, engineCount, disposal, live, scheduled, notEngine>>

\* the event loop runs a task created by mark_unavailable(): the engine is
\* disposed (models.py:104)
DisposeRuns(e) ==
    /\ e \in scheduled
    /\ live' = live \ {e}
    /\ scheduled' = scheduled \ {e}
    /\ UNCHANGED <<available, engine, engineCount, disposal, callers, notEngine>>

EngineNext ==
    \/ \E t \in Callers : GetEngineCall(t)
    \/ \E t \in Callers : ConnectCall(t)
    \/ \E t \in Callers : GeTest(t)
    \/ \E t \in Callers : GeCreate(t)
    \/ \E t \in Callers : GeReturn(t)
    \/ \E t \in Callers : ConnectOpens(t)
    \/ \E t \in Callers : ConnectFails(t)
    \/ \E t \in Callers : ConnectCloses(t)
    \/ \E t \in Callers : MarkCall(t)
    \/ \E t \in Callers : MuClear(t)
    \/ \E e \in 1..MaxCreated : DisposeRuns(e)

EngineSpec == EngineInit /\ [][EngineNext]_vars

\* ------------------------------------------------------- claims C13, C18
\* C13: a connect() that ends in a terminal connection failure does not
\* disable the database: the failure leaves the available flag and the
\* engine handle as they were, and any connect() entered while the flag is
\* set (no mark_unavailable() was called) is not rejected as unavailable:
\* it goes through get_engine() and, holding an engine, to a connection
\* attempt.
C13_FailureDoesNotDisable ==
    [][\A t \in Callers :
         /\ (callers[t].pc = "connecting" /\ callers'[t].pc = "failed") =>
                UNCHANGED <<available, engine, engineCount>>
         /\ (/\ callers[t].pc \in FinalPcs /\ callers'[t] # callers[t]
             /\ callers'[t].op = "connect" /\ available) =>
                callers'[t].pc = "test"
         /\ (/\ callers[t].op = "connect" /\ callers[t].pc = "return"
             /\ callers'[t] # callers[t] /\ engine # None) =>
                callers'[t].pc = "connecting"
      ]_vars

\* C13 witness: a connect() entered after another connect() had surfaced
\* its connection failure was not rejected and made a connection attempt of
\* its own, on a config still available
C13_Witness ==
    /\ available
    /\ \E t \in Callers :
          /\ callers[t].op = "connect" /\ callers[t].afterFailure
          /\ callers[t].pc \in {"open", "failed"}

\* C18 as stated: however get_engine(), connect() and mark_unavailable()
\* callers interleave, at most one engine of the config is live at a time,
\* and a get_engine() that finds a handle returns that handle and creates
\* no engine.
C18_OneLiveEngine ==
    [][/\ Cardinality(live') <= 1
       /\ \A t \in Callers :
            (callers[t].pc = "test" /\ engine # None /\ callers'[t] # callers[t]) =>
                (callers'[t].pc = "return" /\ UNCHANGED <<engine, engineCount, live>>)
      ]_vars

\* the part of C18 the code keeps: a get_engine() that finds a handle
\* creates no engine
C18_HandleFoundIsKept ==
    [][\A t \in Callers :
         (callers[t].pc = "test" /\ engine # None /\ callers'[t] # callers[t]) =>
             (callers'[t].pc = "return" /\ UNCHANGED <<engine, engineCount, live>>)
      ]_vars

\* ====================================== credential resolution of a config
\* One event loop: get_token(), get_resolved_url() and get_engine() hold no
\* await, so each call of them is one step. Time passes between the calls.

\* token_cache.get_token() (tokens.py:14-21) raises: a refresh is due and
\* the credential provider fails (line 18)
GetTokenRaises(fetchOk) ==
    NeedsRefresh(tcToken, tcExpiration, clock) /\ ~fetchOk

\* what one call of token_cache.get_token() does to the cache (tokens.py:
\* 16-20); the value it returns is tcToken'
GetTokenStep(fetchOk) ==
    IF NeedsRefresh(tcToken, tcExpiration, clock) /\ fetchOk
    THEN /\ issued' = issued + 1
         /\ tcToken' = issued + 1
         /\ tcExpiration' = clock + TokenLifetimeMinutes
         /\ lastFetchAt' = clock
    ELSE UNCHANGED <<issued, tcToken, tcExpiration, lastFetchAt>>

\* the token create_async_engine gets inside the URL (models.py:74, 86-90):
\* the one get_token() returned, or none for a URL without the placeholder
ResolvedToken(tokenReturned) == IF usesToken THEN tokenReturned ELSE None

ResolveInit == ConfigNew /\ TokenCacheNew /\ EnvIdle /\ ServerImported /\ NoCallers /\ NothingResolved

\* the process-wide token_cache (tokens.py:24) is called by another config
\* whose URL holds the placeholder
OtherGetToken(fetchOk) ==
    /\ GetTokenStep(fetchOk)
    /\ UNCHANGED <<clock, tcLock, tpc, tnow, tret, tfetched, arrToken, arrStale, notToken>>

\* connection() up to the connection being opened (models.py:110-118):
\* get_engine() returns the engine held, or creates one from the resolved
\* URL when there is none (94-95, 74, 88-89); then engine.connect() opens
\* a connection with the URL the engine was created with, or fails
ConnectionCall(fetchOk, connects) ==
    /\ available
    /\ LET creates == engine = None
           calls == creates /\ usesToken
           raises == calls /\ GetTokenRaises(fetchOk)
       IN /\ IF calls
             THEN GetTokenStep(fetchOk)
             ELSE UNCHANGED <<issued, tcToken, tcExpiration, lastFetchAt>>
          /\ IF raises
             THEN /\ UNCHANGED <<engine, engineCount, embedded>>
                  /\ lastConnect' = [at |-> clock, outcome |-> "token_failed",
                                     calledToken |-> TRUE, createdEngine |-> FALSE,
                                     token |-> None, cached |-> tcToken',
                                     expiration |-> tcExpiration']
             ELSE /\ engine' = EngineAfterGet
                  /\ engineCount' = IF creates THEN engineCount + 1 ELSE engineCount
                  /\ embedded' = IF creates THEN ResolvedToken(tcToken') ELSE embedded
                  /\ lastConnect' = [at |-> clock,
                                     outcome |-> IF connects THEN "opened"
                                                 ELSE "connect_failed",
                                     calledToken |-> calls, createdEngine |-> creates,
                                     token |-> embedded', cached |-> tcToken',
                                     expiration |-> tcExpiration']
    /\ UNCHANGED <<clock, tcLock, tpc, tnow, tret, tfetched, arrToken, arrStale>>
    /\ UNCHANGED <<available, read_only, usesToken, aborted, disposal, task>>
    /\ UNCHANGED <<envVars, serverVars, engVars>>

ResolveNext ==
    \/ Tick
    \/ \E fetchOk \in BOOLEAN : OtherGetToken(fetchOk)
    \/ \E fetchOk \in BOOLEAN : \E connects \in BOOLEAN : ConnectionCall(fetchOk, connects)

ResolveSpec == ResolveInit /\ [][ResolveNext]_vars

\* ------------------------------------------------------------- claim C21
\* the last connection() call of a config with the placeholder called the
\* token cache
EveryConnectResolves ==
    (usesToken /\ lastConnect # <<>>) => lastConnect.calledToken

\* the connection last opened for a config with the placeholder was opened
\* with the token the cache held at that time, and the cache would have
\* returned it then without a refresh
OpenedTokenReturnable ==
    (usesToken /\ lastConnect # <<>> /\ lastConnect.outcome = "opened")
        => /\ lastConnect.token = lastConnect.cached
           /\ ~NeedsRefresh(lastConnect.cached, lastConnect.expiration, lastConnect.at)

\* C21, the part that holds of every call: a config without the placeholder
\* does not call the token cache and its engine holds no token
C21_NoPlaceholderNoCall ==
    ~usesToken => /\ embedded = None
                  /\ lastConnect # <<>> => ~lastConnect.calledToken

\* C21: for a config whose URL holds the credential placeholder every
\* connection() call resolves the credential through the token cache, so a
\* connection is only ever opened with a token the cache would still return
\* at that time; for a URL without the placeholder the cache is not called.
C21_ConnectUsesLiveToken ==
    /\ EveryConnectResolves
    /\ OpenedTokenReturnable
    /\ C21_NoPlaceholderNoCall

\* C21, the part that holds of a call that creates the engine: it calls the
\* cache exactly when the URL holds the placeholder, and the connection it
\* opens uses a token the cache returns at that time
C21_LiveTokenAtCreation ==
    (lastConnect # <<>> /\ lastConnect.createdEngine)
        => /\ lastConnect.calledToken = usesToken
           /\ usesToken => /\ lastConnect.token = lastConnect.cached
                           /\ ~NeedsRefresh(lastConnect.cached, lastConnect.expiration,
                                            lastConnect.at)

====
